---- MODULE Spec2Model ----
(***************************************************************************)
(* Model of scrape.py: the main loop over SUBREDDITS, the two crawl passes *)
(* scrape_posts and scrape_comments, the cursor query                      *)
(* get_earliest_post_timestamp and the writer save_to_database, against a  *)
(* listing source (subreddit.new) and a sink (table reddit_posts_comments).*)
(***************************************************************************)
EXTENDS Integers, Sequences, FiniteSets, TLC

\* ---------------------------------------------------------------- bounds
MaxPosts == 2        \* longest listing subreddit.new() yields
MaxTs == 2           \* largest created_utc value
MaxComments == 2     \* most comments post.comments.list() returns for a post
MaxFaults == 1       \* most source / sink failures injected in one run

\* RATE_LIMIT = int(os.getenv("RATE_LIMIT", 5)): the default.
RATE_LIMIT == 5

\* ---------------------------------------------------------------- values
None == -1                       \* Python None / SQL NULL in a number column
NoKey == "NULL"                  \* SQL NULL in the post_subreddit column
NoId == <<>>                     \* absent identifier column
Ts == 0..MaxTs
Keys == {"a", "b"}

\* The values of the SUBREDDITS environment variable after split(',').
SubredditLists == { <<"a">>, <<"a", " b">>, <<"a", "a">> }

\* str.strip() on the configured names.
strip(name) == IF name = " b" THEN "b" ELSE name

\* The listings subreddit.new(limit=None) can yield: the created_utc of each
\* post, newest first (posts created in the same second tie).
Listings ==
    { s \in UNION { [1..n -> Ts] : n \in 0..MaxPosts } :
        \A i \in 1..(Len(s) - 1) : s[i] >= s[i + 1] }

VARIABLES
    SUBREDDITS, SCRAPE_POSTS, SCRAPE_COMMENTS,  \* configuration (.env)
    source,                 \* the listing the source yields for a subreddit
    num_comments,           \* the number of comments the source holds for a post
    sink,                   \* rows of table reddit_posts_comments, in insertion order
    pc,                     \* position of the program
    idx,                    \* position of the main loop in SUBREDDITS
    post_df, comment_df,    \* the main loop's variables
    it,                     \* number of posts pulled from the listing in this pass
    post_data, comment_data,
    earliest_post_timestamp,
    log,                    \* what the current pass did, in order
    faults                  \* failures injected so far

vars == << SUBREDDITS, SCRAPE_POSTS, SCRAPE_COMMENTS, source, num_comments, sink, pc, idx,
           post_df, comment_df, it, post_data, comment_data,
           earliest_post_timestamp, log, faults >>

config == << SUBREDDITS, SCRAPE_POSTS, SCRAPE_COMMENTS, source, num_comments >>

\* ---------------------------------------------------------------- rows
PostId(key, i) == << key, i >>
CommentId(key, i, j) == << key, i, j >>

\* The dict scrape_posts appends for the i-th post of the listing.
PostRow(key, i) ==
    [ post_id |-> PostId(key, i),
      post_created_utc |-> source[i],
      post_subreddit |-> key,
      comment_id |-> NoId ]

\* The dict scrape_comments appends for the j-th comment of the i-th post:
\* it has no post_created_utc and no post_subreddit key.
CommentRow(key, i, j) ==
    [ post_id |-> PostId(key, i),
      post_created_utc |-> None,
      post_subreddit |-> NoKey,
      comment_id |-> CommentId(key, i, j) ]

\* The dicts of one post: one per comment of post.comments.list().
Comments(key, i) == [ j \in 1..num_comments |-> CommentRow(key, i, j) ]

\* A row an earlier run left in the table.
PriorRow(key, t) ==
    [ post_id |-> PostId(key, 0),
      post_created_utc |-> t,
      post_subreddit |-> key,
      comment_id |-> NoId ]

InitSinks == { <<>> } \cup { << PriorRow(k, t) >> : k \in Keys, t \in Ts }

Unbound == [ bound |-> FALSE, df |-> <<>> ]
Bound(rows) == [ bound |-> TRUE, df |-> rows ]

\* ---------------------------------------------------------------- pure parts
SetMin(S) == CHOOSE m \in S : \A x \in S : m <= x

\* MinCreated without the WHERE clause: the minimum over the rows of every key.
MinCreatedAnyKey(rows, key) ==
    LET vals == { rows[n].post_created_utc : n \in
                    { m \in 1..Len(rows) : rows[m].post_created_utc # None } }
    IN IF vals = {} THEN None ELSE SetMin(vals)

\* SELECT MIN(post_created_utc) ... WHERE post_subreddit = :subreddit_name
MinCreated(rows, key) ==
    LET vals == { rows[n].post_created_utc : n \in
                    { m \in 1..Len(rows) : /\ rows[m].post_subreddit = key
                                           /\ rows[m].post_created_utc # None } }
    IN IF vals = {} THEN None ELSE SetMin(vals)

\* Python truth value of a number or None.
Truthy(x) == x # None /\ x # 0

\* get_earliest_post_timestamp: ok = FALSE is the SQLAlchemyError path.
get_earliest_post_timestamp(rows, key, ok) ==
    IF ok
    THEN LET result == MinCreated(rows, key)
         IN IF Truthy(result) THEN result ELSE None
    ELSE None

\* save_to_database over a table with a uniqueness constraint that drops the
\* rows it already holds.
save_to_database_dedup(rows, df, ok) ==
    IF ok
    THEN rows \o SelectSeq(df, LAMBDA r : \A n \in 1..Len(rows) : rows[n] # r)
    ELSE rows

\* save_to_database with if_exists='replace': the table is rebuilt from df.
save_to_database_replace(rows, df, ok) == IF ok THEN df ELSE rows

\* df.to_sql(..., if_exists='append'): ok = FALSE is a failed (rolled back) insert,
\* which save_to_database logs and swallows.
save_to_database(rows, df, ok) == IF ok THEN rows \o df ELSE rows

\* IsSkipped with < for <=: a post as old as the boundary is crawled again.
IsSkippedStrict(boundary, created) == Truthy(boundary) /\ created < boundary

\* The condition of the `continue` in scrape_comments.
IsSkipped(boundary, created) == Truthy(boundary) /\ created <= boundary

Key == strip(SUBREDDITS[idx])

Event(name, i) == << name, i >>

\* time.sleep(RATE_LIMIT) after the i-th post.
SleepEvent(i) == << "sleep", i, RATE_LIMIT >>

\* ---------------------------------------------------------------- Init
Init ==
    /\ SUBREDDITS \in SubredditLists
    /\ SCRAPE_POSTS \in BOOLEAN
    /\ SCRAPE_COMMENTS \in BOOLEAN
    /\ source \in Listings
    /\ num_comments \in 0..MaxComments
    /\ sink \in InitSinks
    /\ pc = "if_posts"
    /\ idx = 1
    /\ post_df = Unbound
    /\ comment_df = Unbound
    /\ it = 0
    /\ post_data = <<>>
    /\ comment_data = <<>>
    /\ earliest_post_timestamp = None
    /\ log = <<>>
    /\ faults = 0


\* ---------------------------------------------------------------- faults
\* A step that succeeds, or fails while the budget of failures lasts.
Outcome(ok) == ok \/ faults < MaxFaults
Charge(ok) == IF ok THEN faults ELSE faults + 1

\* ---------------------------------------------------------------- main loop
\* if SCRAPE_POSTS: post_df = scrape_posts(subreddit_name.strip())   [entry]
CallScrapePosts ==
    /\ pc = "if_posts"
    /\ SCRAPE_POSTS
    /\ pc' = "sp_for"
    /\ it' = 0
    /\ post_data' = <<>>
    /\ log' = << Event("scrape_posts", 0) >>
    /\ UNCHANGED << config, sink, idx, post_df, comment_df, comment_data,
                    earliest_post_timestamp, faults >>

SkipScrapePosts ==
    /\ pc = "if_posts"
    /\ ~SCRAPE_POSTS
    /\ pc' = "if_comments"
    /\ UNCHANGED << config, sink, idx, post_df, comment_df, it, post_data,
                    comment_data, earliest_post_timestamp, log, faults >>

\* if SCRAPE_COMMENTS: comment_df = scrape_comments(subreddit_name.strip())   [entry]
CallScrapeComments ==
    /\ pc = "if_comments"
    /\ SCRAPE_COMMENTS
    /\ pc' = "sc_query"
    /\ it' = 0
    /\ comment_data' = <<>>
    /\ earliest_post_timestamp' = None
    /\ log' = << Event("scrape_comments", 0) >>
    /\ UNCHANGED << config, sink, idx, post_df, comment_df, post_data, faults >>

SkipScrapeComments ==
    /\ pc = "if_comments"
    /\ ~SCRAPE_COMMENTS
    /\ pc' = "del"
    /\ UNCHANGED << config, sink, idx, post_df, comment_df, it, post_data,
                    comment_data, earliest_post_timestamp, log, faults >>

\* del post_df, comment_df with both names bound; then the next subreddit.
DelLocals ==
    /\ pc = "del"
    /\ post_df.bound /\ comment_df.bound
    /\ post_df' = Unbound
    /\ comment_df' = Unbound
    /\ IF idx < Len(SUBREDDITS)
       THEN idx' = idx + 1 /\ pc' = "if_posts"
       ELSE idx' = idx /\ pc' = "done"
    /\ UNCHANGED << config, sink, it, post_data, comment_data,
                    earliest_post_timestamp, log, faults >>

\* del post_df, comment_df with a name unbound: NameError ends the program.
DelNameError ==
    /\ pc = "del"
    /\ ~(post_df.bound /\ comment_df.bound)
    /\ post_df' = Unbound
    /\ pc' = "NameError"
    /\ UNCHANGED << config, sink, idx, comment_df, it, post_data, comment_data,
                    earliest_post_timestamp, log, faults >>

\* ---------------------------------------------------------------- scrape_posts
\* for post in subreddit.new(limit=None): the source yields the next post.
SP_Next ==
    /\ pc = "sp_for"
    /\ it < Len(source)
    /\ it' = it + 1
    /\ pc' = "sp_append"
    /\ log' = Append(log, Event("fetch", it + 1))
    /\ UNCHANGED << config, sink, idx, post_df, comment_df, post_data,
                    comment_data, earliest_post_timestamp, faults >>

\* The source raises: except Exception logs and returns an empty DataFrame.
SP_SourceError ==
    /\ pc = "sp_for"
    /\ faults < MaxFaults
    /\ faults' = faults + 1
    /\ post_df' = Bound(<<>>)
    /\ post_data' = <<>>
    /\ it' = 0
    /\ pc' = "if_comments"
    /\ log' = Append(log, Event("error", it + 1))
    /\ UNCHANGED << config, sink, idx, comment_df, comment_data,
                    earliest_post_timestamp >>

SP_Append ==
    /\ pc = "sp_append"
    /\ post_data' = Append(post_data, PostRow(Key, it))
    /\ pc' = "sp_sleep"
    /\ log' = Append(log, Event("append", it))
    /\ UNCHANGED << config, sink, idx, post_df, comment_df, it, comment_data,
                    earliest_post_timestamp, faults >>

\* time.sleep(RATE_LIMIT)
SP_Sleep ==
    /\ pc = "sp_sleep"
    /\ pc' = "sp_for"
    /\ log' = Append(log, SleepEvent(it))
    /\ UNCHANGED << config, sink, idx, post_df, comment_df, it, post_data,
                    comment_data, earliest_post_timestamp, faults >>

\* The listing is drained: save_to_database(post_df), log success, return post_df.
SP_Save ==
    /\ pc = "sp_for"
    /\ it = Len(source)
    /\ \E ok \in BOOLEAN :
          /\ Outcome(ok)
          /\ faults' = Charge(ok)
          /\ sink' = save_to_database(sink, post_data, ok)
          /\ log' = log \o << Event("exhausted", it),
                              Event(IF ok THEN "save_ok" ELSE "save_err", it),
                              Event("success", it) >>
    /\ post_df' = Bound(post_data)
    /\ post_data' = <<>>
    /\ it' = 0
    /\ pc' = "if_comments"
    /\ UNCHANGED << config, idx, comment_df, comment_data,
                    earliest_post_timestamp >>


\* ---------------------------------------------------------------- scrape_comments
\* earliest_post_timestamp = get_earliest_post_timestamp(subreddit_name)
SC_Query ==
    /\ pc = "sc_query"
    /\ \E ok \in BOOLEAN :
          /\ Outcome(ok)
          /\ faults' = Charge(ok)
          /\ earliest_post_timestamp' = get_earliest_post_timestamp(sink, Key, ok)
          /\ log' = Append(log, Event(IF ok THEN "query_ok" ELSE "query_err", 0))
    /\ pc' = "sc_for"
    /\ UNCHANGED << config, sink, idx, post_df, comment_df, it, post_data,
                    comment_data >>

\* for post in subreddit.new(limit=None): the source yields the next post.
SC_Next ==
    /\ pc = "sc_for"
    /\ it < Len(source)
    /\ it' = it + 1
    /\ pc' = "sc_check"
    /\ log' = Append(log, Event("fetch", it + 1))
    /\ UNCHANGED << config, sink, idx, post_df, comment_df, post_data,
                    comment_data, earliest_post_timestamp, faults >>

\* SC_Handler that returns what was collected so far, not an empty DataFrame.
SC_HandlerPartial(i) ==
    /\ faults < MaxFaults
    /\ faults' = faults + 1
    /\ comment_df' = Bound(comment_data)
    /\ comment_data' = <<>>
    /\ it' = 0
    /\ pc' = "del"
    /\ log' = Append(log, Event("error", i))
    /\ UNCHANGED << config, sink, idx, post_df, post_data,
                    earliest_post_timestamp >>

\* The except Exception handler of scrape_comments: log, return an empty DataFrame.
SC_Handler(i) ==
    /\ faults < MaxFaults
    /\ faults' = faults + 1
    /\ comment_df' = Bound(<<>>)
    /\ comment_data' = <<>>
    /\ it' = 0
    /\ pc' = "del"
    /\ log' = Append(log, Event("error", i))
    /\ UNCHANGED << config, sink, idx, post_df, post_data,
                    earliest_post_timestamp >>

\* The source raises while the next post is pulled.
SC_SourceError ==
    /\ pc = "sc_for"
    /\ SC_Handler(it + 1)

\* if earliest_post_timestamp and post.created_utc <= earliest_post_timestamp: continue
SC_Skip ==
    /\ pc = "sc_check"
    /\ IsSkipped(earliest_post_timestamp, source[it])
    /\ pc' = "sc_for"
    /\ log' = Append(log, Event("skip", it))
    /\ UNCHANGED << config, sink, idx, post_df, comment_df, it, post_data,
                    comment_data, earliest_post_timestamp, faults >>

\* post.comments.replace_more(limit=0); one dict per comment of post.comments.list()
SC_Scrape ==
    /\ pc = "sc_check"
    /\ ~IsSkipped(earliest_post_timestamp, source[it])
    /\ comment_data' = comment_data \o Comments(Key, it)
    /\ pc' = "sc_sleep"
    /\ log' = Append(log, Event("scrape", it))
    /\ UNCHANGED << config, sink, idx, post_df, comment_df, it, post_data,
                    earliest_post_timestamp, faults >>

\* The source raises while the comments of the post are loaded.
SC_CommentsError ==
    /\ pc = "sc_check"
    /\ ~IsSkipped(earliest_post_timestamp, source[it])
    /\ SC_Handler(it)

\* time.sleep(RATE_LIMIT)
SC_Sleep ==
    /\ pc = "sc_sleep"
    /\ pc' = "sc_save"
    /\ log' = Append(log, SleepEvent(it))
    /\ UNCHANGED << config, sink, idx, post_df, comment_df, it, post_data,
                    comment_data, earliest_post_timestamp, faults >>

\* save_to_database(pd.DataFrame(comment_data)) at the end of the loop body
SC_Save ==
    /\ pc = "sc_save"
    /\ \E ok \in BOOLEAN :
          /\ Outcome(ok)
          /\ faults' = Charge(ok)
          /\ sink' = save_to_database(sink, comment_data, ok)
          /\ log' = Append(log, Event(IF ok THEN "save_ok" ELSE "save_err", it))
    /\ pc' = "sc_for"
    /\ UNCHANGED << config, idx, post_df, comment_df, it, post_data,
                    comment_data, earliest_post_timestamp >>

\* The listing is drained: log success, return pd.DataFrame(comment_data).
SC_Return ==
    /\ pc = "sc_for"
    /\ it = Len(source)
    /\ comment_df' = Bound(comment_data)
    /\ comment_data' = <<>>
    /\ it' = 0
    /\ pc' = "del"
    /\ log' = log \o << Event("exhausted", it), Event("success", it) >>
    /\ UNCHANGED << config, sink, idx, post_df, post_data,
                    earliest_post_timestamp, faults >>

\* ---------------------------------------------------------------- the process dies
Running == pc \notin { "done", "NameError", "crashed" }

\* The process is killed: its memory is lost, the table is what it was.
Crash ==
    /\ Running
    /\ pc' = "crashed"
    /\ post_df' = Unbound
    /\ comment_df' = Unbound
    /\ it' = 0
    /\ post_data' = <<>>
    /\ comment_data' = <<>>
    /\ earliest_post_timestamp' = None
    /\ log' = <<>>
    /\ UNCHANGED << config, sink, idx, faults >>

Next ==
    \/ CallScrapePosts
    \/ SkipScrapePosts
    \/ CallScrapeComments
    \/ SkipScrapeComments
    \/ DelLocals
    \/ DelNameError
    \/ SP_Next
    \/ SP_SourceError
    \/ SP_Append
    \/ SP_Sleep
    \/ SP_Save
    \/ SC_Query
    \/ SC_Next
    \/ SC_SourceError
    \/ SC_Skip
    \/ SC_Scrape
    \/ SC_CommentsError
    \/ SC_Sleep
    \/ SC_Save
    \/ SC_Return
    \/ Crash

Spec == Init /\ [][Next]_vars

\* The steps the program takes by itself (everything but being killed): a
\* sequential program that can take its next step takes it.
Step ==
    \/ CallScrapePosts
    \/ SkipScrapePosts
    \/ CallScrapeComments
    \/ SkipScrapeComments
    \/ DelLocals
    \/ DelNameError
    \/ SP_Next
    \/ SP_SourceError
    \/ SP_Append
    \/ SP_Sleep
    \/ SP_Save
    \/ SC_Query
    \/ SC_Next
    \/ SC_SourceError
    \/ SC_Skip
    \/ SC_Scrape
    \/ SC_CommentsError
    \/ SC_Sleep
    \/ SC_Save
    \/ SC_Return

\* A run over one configured subreddit: the passes of the first iteration.
PassInit == Init /\ Len(SUBREDDITS) = 1

FairSpec == PassInit /\ [][Next]_vars /\ WF_vars(Step)


\* ---------------------------------------------------------------- reading the log
Has(name) == \E n \in 1..Len(log) : log[n][1] = name
Last == IF log = <<>> THEN Event("none", 0) ELSE log[Len(log)]
InPosts == log # <<>> /\ log[1] = Event("scrape_posts", 0)
InComments == log # <<>> /\ log[1] = Event("scrape_comments", 0)

\* The cursor query of this pass has just returned.
AfterQuery == InComments /\ Last[1] \in { "query_ok", "query_err" }

\* The positions of the rows of the table stored under a partition key.
KeyRows(rows, key) == { n \in 1..Len(rows) : rows[n].post_subreddit = key }

Range(f) == { f[x] : x \in DOMAIN f }
IsPrefix(s, t) == Len(s) <= Len(t) /\ SubSeq(t, 1, Len(s)) = s
StrictlyDecreasing(s) == \A i \in 1..(Len(s) - 1) : s[i] > s[i + 1]

\* ---------------------------------------------------------------- claims

\* C1: a failed cursor query is surfaced distinctly from "no boundary": what
\* scrape_comments gets back after a query error differs from what it gets back
\* from a successful query on a key with no rows, and after a query error no post
\* of that key is crawled.  (The code returns None on both paths and crawls on.)
C1_ErrorDistinctFromNoBoundary ==
    (InComments /\ Has("query_err")) =>
        /\ earliest_post_timestamp # get_earliest_post_timestamp(<<>>, Key, TRUE)
        /\ ~Has("scrape")

\* C2: for a key with at least one persisted row, a successful cursor query
\* returns exactly the minimum post_created_utc among the rows of that key,
\* for every timestamp value (0 included), whatever is stored under other keys.
C2_ReturnsMinimumOfKey ==
    (AfterQuery /\ Last[1] = "query_ok" /\ KeyRows(sink, Key) # {}) =>
        /\ \E n \in KeyRows(sink, Key) :
              sink[n].post_created_utc = earliest_post_timestamp
        /\ \A n \in KeyRows(sink, Key) :
              earliest_post_timestamp <= sink[n].post_created_utc

\* C3: for a key with no persisted rows the cursor query returns None ("no
\* boundary"), the pass goes on to the listing instead of entering its error
\* handler, and the query leaves the table as it was.
C3_NoRowsNoBoundary ==
    /\ [] ( (AfterQuery /\ KeyRows(sink, Key) = {}) =>
              /\ earliest_post_timestamp = None
              /\ pc = "sc_for"
              /\ ~Has("error") )
    /\ [][ SC_Query => sink' = sink ]_vars

\* C3 witness: a successful query on a key with no rows while the table holds a
\* row of another key.
C3_Witness ==
    /\ AfterQuery
    /\ Last[1] = "query_ok"
    /\ KeyRows(sink, Key) = {}
    /\ sink # <<>>
    /\ earliest_post_timestamp = None


\* ---------------------------------------------------------------- the crawl pass
IsScrape(e) == e[1] = "scrape"
IsDecision(e) == e[1] \in { "skip", "scrape" }
Indices(k) == [ i \in 1..k |-> i ]
PostsOf(events) == [ n \in 1..Len(events) |-> events[n][2] ]

\* The posts this pass scraped, in order, and the number of posts it has decided on.
Processed == PostsOf(SelectSeq(log, IsScrape))
Decided == Len(SelectSeq(log, IsDecision))

\* The post is strictly newer than the boundary the cursor query returned.
IsNewer(i) ==
    earliest_post_timestamp = None \/ source[i] > earliest_post_timestamp

Flushed(i) ==
    Event("save_ok", i) \in Range(log) \/ Event("save_err", i) \in Range(log)

\* C4: on a strictly decreasing listing the posts scrape_comments processes are
\* exactly the posts with created_utc strictly greater than the boundary, in
\* listing order (all of them when there is no boundary); a pass that drains the
\* listing has decided on every post and handed the rows of every processed post
\* to save_to_database.
C4_ProcessesExactlyNewer ==
    (InComments /\ StrictlyDecreasing(source)) =>
        /\ Processed = SelectSeq(Indices(Decided), IsNewer)
        /\ Has("exhausted") =>
              /\ Decided = Len(source)
              /\ \A i \in Range(Processed) : Flushed(i)

\* C4 witness: a drained pass over a strictly decreasing listing of two posts
\* with the boundary in between.
C4_Witness ==
    /\ InComments
    /\ Has("exhausted")
    /\ StrictlyDecreasing(source)
    /\ Len(source) >= 2
    /\ Processed = << 1 >>
    /\ Has("skip")

\* C5: once the pass meets a post that is not newer than the boundary it stops:
\* no post is pulled from the listing after that post.  (The code skips the
\* post with `continue` and pulls the rest of the listing.)
C5_StopsAtBoundary ==
    (InComments /\ StrictlyDecreasing(source)) =>
        \A m \in 1..Len(log) : \A n \in (m + 1)..Len(log) :
            log[m][1] = "skip" => log[n][1] # "fetch"

\* C6: in scrape_posts and in scrape_comments the rows of each processed post
\* are in the table before the next post is fetched.  (scrape_posts writes once,
\* after the loop.)
C6_CommittedBeforeNextFetch ==
    \A n \in 1..Len(log) : \A i \in 1..(log[n][2] - 1) :
        log[n][1] = "fetch" =>
            /\ InPosts => PostRow(Key, i) \in Range(sink)
            /\ (InComments /\ i \in Range(Processed)) =>
                  Range(Comments(Key, i)) \subseteq Range(sink)

\* C7: a failed commit halts the pass: after it no post is fetched or flushed
\* and the pass does not end in its success outcome.  (save_to_database logs
\* the error and returns normally.)
C7_CommitFailureHaltsPass ==
    \A m \in 1..Len(log) : \A n \in (m + 1)..Len(log) :
        log[m][1] = "save_err" =>
            log[n][1] \notin { "fetch", "save_ok", "save_err", "success" }

\* C8: when the source raises during the pass of one key, the pass ends there
\* and the main loop goes on to the next configured key.  (With a toggle off,
\* `del post_df, comment_df` raises NameError after the first key.)
C8_SourceErrorThenNextKey ==
    Has("error") =>
        /\ Last[1] = "error"
        /\ idx < Len(SUBREDDITS) => pc # "NameError"

\* C9: after a successful commit of the rows of a pass for a key, a fresh
\* (successful) cursor query for that key returns a boundary that is not None
\* and is no greater than the smallest post timestamp among the committed rows.
\* (Comment rows carry no post_subreddit and no post_created_utc.)
C9_CommittedRowsVisibleToCursor ==
    LET fresh == get_earliest_post_timestamp(sink, Key, TRUE)
    IN /\ (InComments /\ Last[1] = "save_ok" /\ comment_data # <<>>) =>
              /\ fresh # None
              /\ \A n \in 1..Len(comment_data) :
                    fresh <= source[comment_data[n].post_id[2]]
       /\ (InPosts /\ Has("save_ok") /\ post_df.df # <<>>) =>
              /\ fresh # None
              /\ \A n \in 1..Len(post_df.df) :
                    fresh <= post_df.df[n].post_created_utc

\* C10: the table only grows: every step of the program leaves the rows it held
\* in place, unchanged, and at most appends rows after them.
C10_SinkOnlyGrows == [][ IsPrefix(sink, sink') ]_vars

\* C10 witness: a comments pass that followed a post crawl of this run has seen
\* the cursor query, a failed commit and a successful commit.
C10_Witness ==
    /\ InComments
    /\ Has("query_ok")
    /\ Has("save_err")
    /\ Has("save_ok")
    /\ \E n \in 1..Len(sink) : sink[n].comment_id = NoId /\ sink[n].post_id[2] >= 1
    /\ \E n \in 1..Len(sink) : sink[n].comment_id # NoId


\* ---------------------------------------------------------------- re-crawls
\* The number of copies of a row the table holds.
Count(rows, r) == Cardinality({ n \in 1..Len(rows) : rows[n] = r })

\* The second iteration of the main loop crawls the key of the first again,
\* posts and comments, with the table as the first left it and nothing failing;
\* its cursor query has returned.
Rerun ==
    /\ Len(SUBREDDITS) = 2
    /\ idx = 2
    /\ strip(SUBREDDITS[1]) = strip(SUBREDDITS[2])
    /\ SCRAPE_POSTS /\ SCRAPE_COMMENTS
    /\ faults = 0
    /\ pc # "if_posts"
    /\ InComments
    /\ Has("query_ok")

InScrapeComments == pc \in { "sc_query", "sc_for", "sc_check", "sc_sleep", "sc_save" }

\* The rows the pass holds for the i-th post.
RowsOfPost(rows, key, i) == SelectSeq(rows, LAMBDA r : r.post_id = PostId(key, i))

\* C12: for every post scrape_comments processed, the pass holds exactly one row
\* per comment of the post (none for a post without comments), and every such
\* row carries the post's fields, creation timestamp and partition key included,
\* next to the comment's own.  (The rows carry post_id and the comment's fields
\* only.)
C12_OneRowPerCommentWithPostFields ==
    (InComments /\ InScrapeComments) =>
        \A i \in Range(Processed) :
            LET rows == RowsOfPost(comment_data, Key, i)
            IN /\ Len(rows) = num_comments
               /\ \A n \in 1..Len(rows) :
                     /\ rows[n].comment_id = CommentId(Key, i, n)
                     /\ rows[n].post_created_utc = source[i]
                     /\ rows[n].post_subreddit = Key


IsSaveOf(e, i) == e[1] \in { "save_ok", "save_err" } /\ e[2] = i
IsQuery(e) == e[1] \in { "query_ok", "query_err" }

\* C14: per post the steps run fetch, flatten, write, throttle delay, next
\* fetch: the rows of the post are handed to the table before the delay of that
\* post begins; and the cursor query runs exactly once per comments pass, before
\* the first fetch.  (Both passes sleep first; scrape_comments writes after the
\* delay, scrape_posts after the loop.)
C14_WriteBeforeDelay ==
    /\ \A n \in 1..Len(log) :
          log[n][1] = "sleep" =>
              \E m \in 1..(n - 1) : IsSaveOf(log[m], log[n][2])
    /\ InComments =>
          /\ Len(SelectSeq(log, IsQuery)) <= 1
          /\ \A n \in 1..Len(log) :
                log[n][1] = "fetch" => \E m \in 1..(n - 1) : IsQuery(log[m])


\* C15: in every pass a throttle delay of RATE_LIMIT lies between any two
\* successive pulls from the listing, whether the earlier post was processed or
\* skipped.  (A skipped post is followed by the next pull with no delay.)
C15_DelayBetweenPulls ==
    \A m \in 1..Len(log) : \A n \in (m + 1)..Len(log) :
        (log[m][1] = "fetch" /\ log[n][1] = "fetch") =>
            \E k \in (m + 1)..(n - 1) : log[k] = SleepEvent(log[m][2])


\* C16: within one scrape_comments pass every comment the source returned is in
\* the table at most once (first key of the run, so no earlier pass of the run
\* wrote comments).  (Each flush writes the whole comment_data again.)
C16_CommentAppendedAtMostOnce ==
    (InComments /\ InScrapeComments /\ idx = 1) =>
        \A i \in 1..Len(source) : \A j \in 1..num_comments :
            Count(sink, CommentRow(Key, i, j)) <= 1


\* ---------------------------------------------------------------- main loop
\* C17: for every setting of the two toggles and every list of subreddits the
\* main loop reaches the end of each iteration and moves on: it never dies at
\* the end of an iteration.  (`del post_df, comment_df` raises NameError unless
\* both crawls ran.)
C17_MainLoopCompletes == pc # "NameError"

\* The table held nothing when the run began: no row of an earlier run.
StartedEmpty == \A n \in 1..Len(sink) : sink[n].post_id[2] # 0

\* C18: with both toggles on, an empty table at the start and nothing failing,
\* the comments pass of a key processes every post the posts pass before it
\* persisted, the oldest included.  (The boundary is the timestamp of the oldest
\* post just persisted, and posts not newer than it are skipped.)
C18_CommentsCoverPersistedPosts ==
    ( /\ SCRAPE_POSTS /\ SCRAPE_COMMENTS
      /\ faults = 0
      /\ StartedEmpty
      /\ idx = 1
      /\ InComments /\ Has("exhausted")
      /\ pc = "del" ) =>
        \A i \in 1..Len(source) :
            PostRow(Key, i) \in Range(sink) => i \in Range(Processed)


\* ---------------------------------------------------------------- termination
\* The program is inside a crawl pass.
InPass == pc \in { "sp_for", "sp_append", "sp_sleep",
                   "sc_query", "sc_for", "sc_check", "sc_sleep", "sc_save" }

\* The outcome of the pass that has just returned to the main loop.
PassOutcome ==
    /\ (InPosts /\ pc = "if_comments") =>
          /\ Has("success") # Has("error")
          /\ Has("success") => Has("exhausted") /\ post_df.bound
          /\ Has("error") => post_df = Bound(<<>>)
    /\ (InComments /\ pc = "del") =>
          /\ Has("success") # Has("error")
          /\ Has("success") => Has("exhausted") /\ comment_df.bound
          /\ Has("error") => comment_df = Bound(<<>>)

\* C19: whatever the listing and whatever fails, a crawl pass that has begun
\* comes to its end, and it returns to the main loop in exactly one outcome:
\* listing exhausted (success logged, the DataFrame returned) or error logged
\* with an empty DataFrame returned; no failure leaves the pass any other way.
C19_PassTerminatesInOneOutcome ==
    /\ [] PassOutcome
    /\ InPass ~> ~InPass

\* C19 witness: a comments pass has returned through its error handler after a
\* post was flushed.
C19_Witness ==
    /\ InComments
    /\ pc = "del"
    /\ Has("save_ok")
    /\ Has("error")
    /\ comment_df = Bound(<<>>)
    /\ sink # <<>>

====
